---- MODULE Spec2Model ----
(***************************************************************************)
(* Model of the medical-integration event pipeline:                        *)
(*   ingest-service   EventsController.ingest -> EventsService.enqueue     *)
(*                    -> QueueService.publish (assigns a random eventId)   *)
(*   processor-service WorkerController.receiveEvent                       *)
(*                    -> WorkerService.processEvent / processWithLock      *)
(*                    -> WorkerService.processEventInternal                *)
(*                    -> processed_events collection (unique eventId)      *)
(*                                                                         *)
(* The processor is a single Node.js event loop: the code between two      *)
(* awaits of a handler runs without interruption, and the continuations    *)
(* of a settled promise (microtasks) all run before the next request,      *)
(* timer or store reply (macrotask) is handled.  Each action below is one  *)
(* such macrotask together with the microtasks it triggers.  A store call  *)
(* (findOne, create) takes effect and is answered in one step.             *)
(***************************************************************************)
EXTENDS Integers, Sequences, FiniteSets, TLC

\* ---------------------------------------------------------------- bounds
MaxSubs == 3          \* events delivered to the processor's /queue endpoint
NumPatients == 2      \* distinct patientId values
NumEventIds == 2      \* distinct eventId values

Subs == 1..MaxSubs
Patients == 1..NumPatients
EventIds == 1..NumEventIds

\* ----------------------------------------------------------------- state
VARIABLES
    nsub,          \* number of events received so far; the next one is nsub+1
    ev,            \* ev[i]: the QueueEventDto of the i-th received event
    pc,            \* pc[i]: where the i-th processEvent call stands
    pred,          \* pred[i]: existingPromise captured by processWithLock (0: none)
    patientLocks,  \* patientLocks[k]: the promise stored for key k (0: no entry),
                   \* a promise being named by the event whose processWithLock made it
    store,         \* processed_events, in order of insertion (processedAt)
    effects,       \* effects[id]: number of simulateProcessing runs for eventId id
    response,      \* response[i]: what receiveEvent answered for the i-th event
    failure,       \* failure[i]: which call threw in the i-th task ("none" if none)
    logged,        \* events whose rejection reached console.error in receiveEvent
    dupWarned,     \* events whose insert hit error code 11000
    ingestLog      \* what the ingest service's POST /events has answered so far

vars == <<nsub, ev, pc, pred, patientLocks, store, effects, response, failure,
          logged, dupWarned, ingestLog>>

\* QueueEventDto: eventId and patientId; type, data and ts are copied into
\* the document and never read, and are left out.  src tells which endpoint
\* the event came through.
QueueEventDto(id, p, s) == [eventId |-> id, patientId |-> p, src |-> s]

NoEvent == [eventId |-> 0, patientId |-> 0, src |-> "none"]

\* ProcessedEvent document; sub names the task that inserted it.
ProcessedEvent(e, i) ==
    [eventId |-> e.eventId, patientId |-> e.patientId, sub |-> i]

Terminal(s) == s \in {"skipped", "completed", "failed"}
InStep(s) == s \in {"checking", "executing", "recording"}
Unfinished(i) == pc[i] = "waiting" \/ InStep(pc[i])

Init ==
    /\ nsub = 0
    /\ ev = [i \in Subs |-> NoEvent]
    /\ pc = [i \in Subs |-> "idle"]
    /\ pred = [i \in Subs |-> 0]
    /\ patientLocks = [k \in Patients |-> 0]
    /\ store = <<>>
    /\ effects = [id \in EventIds |-> 0]
    /\ response = [i \in Subs |-> "none"]
    /\ failure = [i \in Subs |-> "none"]
    /\ logged = {}
    /\ dupWarned = {}
    /\ ingestLog = {}

\* ------------------------------------------------------------- processor
LockKeyShared(e) == CHOOSE k \in Patients : TRUE

\* The key of the patientLocks map: event.patientId.
LockKey(e) == e.patientId

ReceiveEventReplyAwaited(promiseState) ==
    IF promiseState = "pending" THEN "none"
    ELSE IF promiseState = "rejected" THEN "error" ELSE "accepted"

\* receiveEvent's answer, given the state of the processEvent promise when
\* the handler returns: it does not await the promise.
ReceiveEventReply(promiseState) == "accepted"

AwaitPreviousRethrow(outcome) ==
    IF outcome = "failed" THEN "rethrow" ELSE "run"

\* processWithLock: existingPromise.catch(() => {}) swallows a rejection of
\* the previous task, so the waiting task runs whatever the outcome was.
AwaitPrevious(outcome) == "run"

CleanupNone(locks, k, i) == locks

\* processEvent's finally block: patientLocks.delete(event.patientId).
Cleanup(locks, k, i) == [locks EXCEPT ![k] = 0]

FindOneNever(st, id) == FALSE

FindOneAlways(st, id) == TRUE

\* processedEventModel.findOne({eventId}): is there such a document?
FindOne(st, id) == \E n \in 1..Len(st) : st[n].eventId = id

CreateUpsert(st, doc) ==
    IF \E n \in 1..Len(st) : st[n].eventId = doc.eventId
    THEN [code |-> 0,
          st |-> [n \in 1..Len(st) |->
                     IF st[n].eventId = doc.eventId THEN doc ELSE st[n]]]
    ELSE [code |-> 0, st |-> Append(st, doc)]

CreateNoIndex(st, doc) == [code |-> 0, st |-> Append(st, doc)]

\* processedEventModel.create(doc) under the unique index on eventId.
Create(st, doc) ==
    IF \E n \in 1..Len(st) : st[n].eventId = doc.eventId
    THEN [code |-> 11000, st |-> st]
    ELSE [code |-> 0, st |-> Append(st, doc)]

WaitersNone(i) == {}

\* Tasks suspended on the promise of task i.
Waiters(i) == {j \in Subs : pc[j] = "waiting" /\ pred[j] = i}

RECURSIVE Chain(_)
Chain(i) == Waiters(i) \cup UNION {Chain(j) : j \in Waiters(i)}

\* receiveEvent -> processEvent -> processWithLock, up to the first await.
Submit(e) ==
    /\ nsub < MaxSubs
    /\ LET i == nsub + 1
           k == LockKey(e)
           prev == patientLocks[k]
       IN /\ nsub' = i
          /\ ev' = [ev EXCEPT ![i] = e]
          /\ pred' = [pred EXCEPT ![i] = prev]
          /\ pc' = [pc EXCEPT ![i] =
                      IF prev = 0 \/ Terminal(pc[prev])
                      THEN "checking" ELSE "waiting"]
          /\ patientLocks' = [patientLocks EXCEPT ![k] = i]
          /\ response' = [response EXCEPT ![i] = ReceiveEventReply("pending")]
    /\ UNCHANGED <<store, effects, failure, logged, dupWarned>>

\* processEventInternal of task i returns or throws: its processWithLock
\* promise settles, processEvent's finally runs, receiveEvent's catch logs
\* a rejection, and the tasks waiting on the promise go on.
Finish(i, outcome, cause) ==
    LET rethrown == IF AwaitPrevious(outcome) = "run" THEN {} ELSE Chain(i)
        started == IF AwaitPrevious(outcome) = "run" THEN Waiters(i) ELSE {}
        rejected == IF outcome = "failed" THEN {i} \cup rethrown ELSE {}
    IN /\ pc' = [j \in Subs |->
                   IF j = i THEN outcome
                   ELSE IF j \in started THEN "checking"
                   ELSE IF j \in rethrown THEN "failed"
                   ELSE pc[j]]
       /\ failure' = [j \in Subs |->
                   IF j = i THEN cause
                   ELSE IF j \in rethrown THEN "previous"
                   ELSE failure[j]]
       /\ patientLocks' = Cleanup(patientLocks, LockKey(ev[i]), i)
       /\ logged' = logged \cup rejected
       /\ response' = [j \in Subs |->
                   IF j \in {i} \cup rethrown /\ response[j] = "none"
                   THEN ReceiveEventReply(IF j \in rejected
                                          THEN "rejected" ELSE "resolved")
                   ELSE response[j]]

FindOneHitFallThrough(i) ==
    /\ pc[i] = "checking"
    /\ FindOne(store, ev[i].eventId)
    /\ pc' = [pc EXCEPT ![i] = "executing"]
    /\ effects' = [effects EXCEPT ![ev[i].eventId] = @ + 1]
    /\ UNCHANGED <<nsub, ev, pred, patientLocks, store, response, failure,
                   logged, dupWarned, ingestLog>>

\* findOne answers: a document exists and the event is skipped.
FindOneHit(i) ==
    /\ pc[i] = "checking"
    /\ FindOne(store, ev[i].eventId)
    /\ Finish(i, "skipped", "none")
    /\ UNCHANGED <<nsub, ev, pred, store, effects, dupWarned, ingestLog>>

FindOneMissNoEffect(i) ==
    /\ pc[i] = "checking"
    /\ ~FindOne(store, ev[i].eventId)
    /\ pc' = [pc EXCEPT ![i] = "recording"]
    /\ UNCHANGED <<nsub, ev, pred, patientLocks, store, effects, response,
                   failure, logged, dupWarned, ingestLog>>

\* findOne answers null: simulateProcessing starts.
FindOneMiss(i) ==
    /\ pc[i] = "checking"
    /\ ~FindOne(store, ev[i].eventId)
    /\ pc' = [pc EXCEPT ![i] = "executing"]
    /\ effects' = [effects EXCEPT ![ev[i].eventId] = @ + 1]
    /\ UNCHANGED <<nsub, ev, pred, patientLocks, store, response, failure,
                   logged, dupWarned, ingestLog>>

\* findOne throws (the store cannot be reached).
FindOneError(i) ==
    /\ pc[i] = "checking"
    /\ Finish(i, "failed", "findOne")
    /\ UNCHANGED <<nsub, ev, pred, store, effects, dupWarned, ingestLog>>

\* The timer of simulateProcessing fires; create is called.
SimulateProcessingDone(i) ==
    /\ pc[i] = "executing"
    /\ pc' = [pc EXCEPT ![i] = "recording"]
    /\ UNCHANGED <<nsub, ev, pred, patientLocks, store, effects, response,
                   failure, logged, dupWarned, ingestLog>>

\* create answers: inserted.
CreateInserted(i) ==
    /\ pc[i] = "recording"
    /\ LET r == Create(store, ProcessedEvent(ev[i], i))
       IN /\ r.code = 0
          /\ store' = r.st
    /\ Finish(i, "completed", "none")
    /\ UNCHANGED <<nsub, ev, pred, effects, dupWarned, ingestLog>>

CreateDuplicateNoReturn(i) ==
    /\ pc[i] = "recording"
    /\ Create(store, ProcessedEvent(ev[i], i)).code = 11000
    /\ dupWarned' = dupWarned \cup {i}
    /\ Finish(i, "failed", "create")
    /\ UNCHANGED <<nsub, ev, pred, store, effects, ingestLog>>

\* create throws error code 11000: warned and treated as done.
CreateDuplicate(i) ==
    /\ pc[i] = "recording"
    /\ LET r == Create(store, ProcessedEvent(ev[i], i))
       IN /\ r.code = 11000
          /\ store' = r.st
    /\ dupWarned' = dupWarned \cup {i}
    /\ Finish(i, "completed", "none")
    /\ UNCHANGED <<nsub, ev, pred, effects, ingestLog>>

CreateErrorRetry(i) ==
    /\ pc[i] = "recording"
    /\ pc' = [pc EXCEPT ![i] = "checking"]
    /\ failure' = [failure EXCEPT ![i] = "create"]
    /\ UNCHANGED <<nsub, ev, pred, patientLocks, store, effects, response,
                   logged, dupWarned, ingestLog>>

\* create throws any other error: rethrown.
CreateError(i) ==
    /\ pc[i] = "recording"
    /\ Finish(i, "failed", "create")
    /\ UNCHANGED <<nsub, ev, pred, store, effects, dupWarned, ingestLog>>

\* ---------------------------------------------------------------- inputs
\* patientId and eventId are strings that the code only stores and compares
\* for equality, so the values are numbered in the order in which they
\* first appear: a request carries a value seen before or the next unseen
\* one.
UsedIds == {ev[i].eventId : i \in 1..nsub}
UsedPatients == {ev[i].patientId : i \in 1..nsub}
UpToRenaming(S, used) ==
    {x \in S : x \in used \/ \A y \in S \ used : x <= y}

\* ---------------------------------------------------------------- ingest
\* randomUUID(): an identifier no event has carried so far.
RandomUUID == CHOOSE id \in EventIds \ UsedIds :
                  \A other \in EventIds \ UsedIds : id <= other

IngestReplyNotAwaited(forward) == "queued"

\* EventsController.ingest awaits enqueue, which awaits publish, which
\* awaits the processor's answer to the forwarded event: 'queued' is
\* returned when that answer came, and the rejection goes to the client
\* otherwise.
IngestReply(forward) == IF forward = "acknowledged" THEN "queued" ELSE "error"

\* One handled POST /events: the eventId publish assigned, how forwarding
\* ended, and the answer.
IngestAnswer(id, forward) ==
    [eventId |-> id, forward |-> forward, reply |-> IngestReply(forward)]

\* POST /events of the ingest service: publish gives the body a new eventId
\* and posts it to the processor's /queue; the processor answers.
Ingest(p) ==
    /\ p \in UpToRenaming(Patients, UsedPatients)
    /\ EventIds \ UsedIds # {}
    /\ Submit(QueueEventDto(RandomUUID, p, "ingest"))
    /\ ingestLog' = ingestLog \cup
           {IngestAnswer(RandomUUID,
                         IF response'[nsub'] = "accepted"
                         THEN "acknowledged" ELSE "failed")}

\* POST /queue of the processor by another sender: a redelivery or retry,
\* carrying an eventId the processor has received before.  (A first
\* delivery there is handled as one that came through Ingest.)
ReceiveEvent(id, p) ==
    /\ id \in UsedIds
    /\ p \in UpToRenaming(Patients, UsedPatients)
    /\ Submit(QueueEventDto(id, p, "queue"))
    /\ UNCHANGED ingestLog

Next ==
    \/ \E p \in Patients : Ingest(p)
    \/ \E id \in EventIds, p \in Patients : ReceiveEvent(id, p)
    \/ \E i \in Subs : FindOneHit(i)
    \/ \E i \in Subs : FindOneMiss(i)
    \/ \E i \in Subs : FindOneError(i)
    \/ \E i \in Subs : SimulateProcessingDone(i)
    \/ \E i \in Subs : CreateInserted(i)
    \/ \E i \in Subs : CreateDuplicate(i)
    \/ \E i \in Subs : CreateError(i)

Spec == Init /\ [][Next]_vars

\* ------------------------------------------------------------ scheduling
\* The event loop does not idle while a store call is outstanding or a
\* timer is running: some answer or timer is handled.  (Weaker than every
\* task being served, and enough, since every task takes finitely many
\* steps.)
StoreAnswers(i) ==
    \/ FindOneHit(i) \/ FindOneMiss(i) \/ FindOneError(i)
    \/ CreateInserted(i) \/ CreateDuplicate(i) \/ CreateError(i)

Fairness ==
    WF_vars(\E i \in Subs : StoreAnswers(i) \/ SimulateProcessingDone(i))

\* Every call of the store terminates and the timer fires.
SpecFair == Spec /\ Fairness

\* The same with a store that never fails: findOne and create always
\* answer, create with "inserted" or error code 11000.
StoreAnswersOk(i) ==
    \/ FindOneHit(i) \/ FindOneMiss(i)
    \/ CreateInserted(i) \/ CreateDuplicate(i)

NextNoFault ==
    \/ \E p \in Patients : Ingest(p)
    \/ \E id \in EventIds, p \in Patients : ReceiveEvent(id, p)
    \/ \E i \in Subs : FindOneHit(i)
    \/ \E i \in Subs : FindOneMiss(i)
    \/ \E i \in Subs : SimulateProcessingDone(i)
    \/ \E i \in Subs : CreateInserted(i)
    \/ \E i \in Subs : CreateDuplicate(i)

SpecNoFault ==
    /\ Init /\ [][NextNoFault]_vars
    /\ WF_vars(\E i \in Subs : StoreAnswersOk(i) \/ SimulateProcessingDone(i))


\* ------------------------------------------------- forwarding failures
\* The processor received the forwarded event, and its answer did not
\* reach the ingest service (timeout, connection reset): the post rejects.
IngestAckLost(p) ==
    /\ p \in UpToRenaming(Patients, UsedPatients)
    /\ EventIds \ UsedIds # {}
    /\ Submit(QueueEventDto(RandomUUID, p, "ingest"))
    /\ ingestLog' = ingestLog \cup {IngestAnswer(RandomUUID, "failed")}

\* The forwarded event did not reach the processor: the post rejects.  The
\* eventId publish assigned is seen by nobody and has no number here.
IngestUnreachable ==
    /\ ingestLog' = ingestLog \cup {IngestAnswer(0, "failed")}
    /\ UNCHANGED <<nsub, ev, pc, pred, patientLocks, store, effects, response,
                   failure, logged, dupWarned>>

\* The pipeline with forwarding failures.  What POST /events answers does
\* not depend on how the processor's store calls end, and the store is
\* taken here as one that never fails.
NextIngest ==
    \/ NextNoFault
    \/ \E p \in Patients : IngestAckLost(p)
    \/ IngestUnreachable

SpecIngest == Init /\ [][NextIngest]_vars

\* --------------------------------------------------------------- restart
RestartWipesStore ==
    /\ pc' = [i \in Subs |-> IF Unfinished(i) THEN "lost" ELSE pc[i]]
    /\ patientLocks' = [k \in Patients |-> 0]
    /\ store' = <<>>
    /\ UNCHANGED <<nsub, ev, pred, effects, response, failure, logged,
                   dupWarned, ingestLog>>

\* The processor process stops and starts again: a new WorkerService has an
\* empty patientLocks map, the calls that were in progress are gone, and
\* the processed_events collection (MongoDB) is as it was.  (A create that
\* reached the store before the stop is a CreateInserted step followed by
\* this one.)
Restart ==
    /\ pc' = [i \in Subs |-> IF Unfinished(i) THEN "lost" ELSE pc[i]]
    /\ patientLocks' = [k \in Patients |-> 0]
    /\ UNCHANGED <<nsub, ev, pred, store, effects, response, failure,
                   logged, dupWarned, ingestLog>>

\* The sender posts an event lost by a restart to /queue again, with the
\* eventId it had.
Resubmit(i) ==
    /\ pc[i] = "lost"
    /\ Submit([ev[i] EXCEPT !.src = "resubmit"])
    /\ UNCHANGED ingestLog

NextRestart ==
    \/ Next
    \/ Restart
    \/ \E i \in Subs : Resubmit(i)

SpecRestart == Init /\ [][NextRestart]_vars

\* ------------------------------------------------------------ properties
SamePatient(i, j) == ev[i].patientId = ev[j].patientId
HasRecord(id) == \E n \in 1..Len(store) : store[n].eventId = id
PassedCheck(i) ==
    pc[i] \in {"executing", "recording", "completed"} \/ failure[i] = "create"

\* C1: at most one event of a patientId is inside its processing step
\* (processEventInternal started and not finished) at any time.
MutualExclusion ==
    \A i, j \in Subs :
        (i # j /\ SamePatient(i, j)) => ~(InStep(pc[i]) /\ InStep(pc[j]))

\* C2: of two events of one patientId, the one received later begins its
\* processing step only after the earlier one has finished.
FifoOrder ==
    \A i, j \in Subs :
        (i < j /\ j <= nsub /\ SamePatient(i, j)
               /\ (InStep(pc[j]) \/ Terminal(pc[j])))
        => Terminal(pc[i])

\* C3: processed_events never holds two documents with one eventId.
UniqueRecord ==
    \A a, b \in 1..Len(store) :
        store[a].eventId = store[b].eventId => a = b

\* Two deliveries of one eventId both passed the existence check; one was
\* inserted and the other was rejected by the unique index.
UniqueRecordWitness ==
    \E i \in dupWarned : \E n \in 1..Len(store) :
        /\ store[n].eventId = ev[i].eventId
        /\ store[n].sub # i

\* C4 (as claimed): simulateProcessing runs at most once for an eventId.
EffectAtMostOnce == \A id \in EventIds : effects[id] <= 1

\* C4 (amended): every delivery runs the effect at most once, and only when
\* its existence check found no document: the executions for an eventId are
\* exactly the deliveries that passed the check, and once a document with
\* the eventId is stored the effect is never run for it again.
EffectOnlyBeforeRecord ==
    /\ [](\A id \in EventIds :
            effects[id] = Cardinality({i \in Subs : ev[i].eventId = id
                                                    /\ PassedCheck(i)}))
    /\ [][\A id \in EventIds : HasRecord(id) => effects'[id] = effects[id]]_vars

\* A delivery was skipped after the only execution of its eventId's effect.
EffectOnlyBeforeRecordWitness ==
    \E i \in Subs : pc[i] = "skipped" /\ effects[ev[i].eventId] = 1

\* C5: a task is never left waiting on a finished (failed) predecessor,
\* and a task fails only by an error of its own findOne or create call.
FailureIsolation ==
    /\ \A j \in Subs : pc[j] = "waiting" =>
           (pred[j] # 0 /\ ~Terminal(pc[pred[j]]))
    /\ \A j \in Subs : pc[j] = "failed" => failure[j] \in {"findOne", "create"}

\* An event queued behind a failed event of its patient completed.
FailureIsolationWitness ==
    \E i, j \in Subs :
        /\ pred[j] = i /\ SamePatient(i, j)
        /\ pc[i] = "failed" /\ pc[j] = "completed" /\ j \notin dupWarned

\* C6: an event waits only while an earlier event of its own patientId is
\* unfinished; events of other patients never make it wait.
CrossKeyIndependence ==
    \A j \in Subs : pc[j] = "waiting" =>
        \E i \in 1..(j - 1) : SamePatient(i, j) /\ Unfinished(i)

\* Events of two patients are in their processing steps at once, one of
\* them behind a failed event of its patient.
CrossKeyIndependenceWitness ==
    \E i, j, f \in Subs :
        /\ ~SamePatient(i, j) /\ InStep(pc[i]) /\ InStep(pc[j])
        /\ SamePatient(f, i) /\ pc[f] = "failed"

\* C7: a key without a pending or running event has no patientLocks entry.
RegistryCleanup ==
    \A k \in Patients :
        (~\E i \in Subs : ev[i].patientId = k /\ Unfinished(i))
        => patientLocks[k] = 0

\* Several events were received, all have finished, the registry is empty.
RegistryCleanupWitness ==
    /\ nsub >= 2
    /\ \A i \in 1..nsub : Terminal(pc[i])
    /\ \A k \in Patients : patientLocks[k] = 0

\* C8: the documents of one patientId are inserted in the order in which
\* their events were received.
RecordOrder ==
    \A a, b \in 1..Len(store) :
        (a < b /\ store[a].patientId = store[b].patientId)
        => store[a].sub < store[b].sub

\* C9: receiveEvent has answered 'accepted' for every received event,
\* whether it is waiting, running, skipped, completed or failed, and a
\* failure ends in the processor's log.
AcceptedAlways ==
    /\ \A i \in 1..nsub : response[i] = "accepted"
    /\ \A i \in Subs : pc[i] = "failed" => i \in logged

\* Accepted events of which one failed and one has not begun its step.
AcceptedAlwaysWitness ==
    \E i, j \in Subs :
        /\ pc[i] = "failed" /\ response[i] = "accepted"
        /\ pc[j] = "waiting" /\ response[j] = "accepted"

\* C10: two POSTs of one body (here: one patientId, the other fields being
\* equal) to the ingest service's /events leave at most one document in
\* processed_events.
IngestDedup ==
    \A a, b \in 1..Len(store) :
        LET i == store[a].sub
            j == store[b].sub
        IN (/\ ev[i].src = "ingest" /\ ev[j].src = "ingest"
            /\ ev[i].patientId = ev[j].patientId)
           => a = b

\* C11: with a store that never fails, every eventId that has been
\* delivered (any number of times) eventually has a document, exactly one.
ExactlyOneEventually ==
    \A id \in EventIds :
        (id \in UsedIds) ~>
            (Cardinality({n \in 1..Len(store) : store[n].eventId = id}) = 1)

\* An eventId delivered three times has its one document and every
\* delivery has finished.
ExactlyOneEventuallyWitness ==
    \E id \in EventIds :
        /\ Cardinality({i \in 1..nsub : ev[i].eventId = id}) >= 3
        /\ \A i \in 1..nsub : Terminal(pc[i])
        /\ Cardinality({n \in 1..Len(store) : store[n].eventId = id}) = 1

\* C20: with every store call answered and every timer firing, every
\* received event reaches skipped, completed or failed, also when it was
\* queued behind other events of its patient: again and again a moment
\* comes at which no received event is unfinished.
RunToCompletion ==
    []<>(\A i \in Subs : pc[i] = "idle" \/ Terminal(pc[i]))

\* An event that was queued behind another one has finished.
RunToCompletionWitness ==
    \E i \in Subs : pred[i] # 0 /\ Terminal(pc[i]) /\ Terminal(pc[pred[i]])

\* C12: a delivery whose eventId already has a document, or is carried by
\* an unfinished event, is accepted like any other and enters the core;
\* receiving it changes nothing in the store.
AcceptDuplicates ==
    [][(/\ nsub' = nsub + 1
        /\ \/ HasRecord(ev'[nsub'].eventId)
           \/ \E j \in 1..nsub : /\ ev[j].eventId = ev'[nsub'].eventId
                                 /\ Unfinished(j))
       => /\ response'[nsub'] = "accepted"
          /\ pc'[nsub'] \in {"checking", "waiting"}
          /\ store' = store]_vars

\* The second delivery of a recorded eventId was accepted and is at its
\* existence check (its patient had no entry, so the first had finished).
AcceptDuplicatesWitness ==
    /\ nsub = 2 /\ SamePatient(1, 2) /\ ev[1].eventId = ev[2].eventId
    /\ pred[2] = 0 /\ pc[1] = "completed" /\ pc[2] = "checking"
    /\ HasRecord(ev[2].eventId) /\ response[2] = "accepted"

\* C13: the cleanup of a finishing task removes a patientLocks entry only
\* if the entry is the finishing task's own promise.
ConditionalCleanup ==
    [][\A k \in Patients :
          (patientLocks[k] # 0 /\ patientLocks'[k] = 0)
          => (~Terminal(pc[patientLocks[k]]) /\ Terminal(pc'[patientLocks[k]]))]_vars

\* C14: a received event waits on the event of its patient received
\* immediately before it whenever that one is unfinished, and no two events
\* wait on the same predecessor.
StrictChaining ==
    /\ [](\A i, j \in Subs : (i # j /\ pred[i] # 0) => pred[i] # pred[j])
    /\ [][nsub' = nsub + 1 =>
            LET j == nsub'
                earlier == {i \in 1..nsub : ev[i].patientId = ev'[j].patientId}
            IN \A i \in earlier :
                   ((\A o \in earlier : o <= i) /\ Unfinished(i))
                   => pred'[j] = i]_vars

\* C15: of two events of one patient that were both received before either
\* finished, the later one does not begin its processing step until the
\* earlier one has finished.
BackToBackOrder ==
    \A i, j \in Subs :
        (i < j /\ j <= nsub /\ SamePatient(i, j) /\ Unfinished(i))
        => pc[j] = "waiting"

\* C16: when the existence check finds a document, the step ends as a skip:
\* no effect, no insert, the store unchanged, the task resolved.
DuplicateSkipNoOp ==
    [][\A i \in Subs :
          (/\ pc[i] = "checking" /\ pc'[i] # "checking"
           /\ HasRecord(ev[i].eventId) /\ failure'[i] = "none")
          => (/\ pc'[i] = "skipped"
              /\ store' = store /\ effects' = effects
              /\ i \notin logged')]_vars

\* A redelivery was skipped after the one execution and one insert.
DuplicateSkipNoOpWitness ==
    \E i \in Subs :
        /\ pc[i] = "skipped" /\ i \notin logged
        /\ effects[ev[i].eventId] = 1 /\ Len(store) = 1

\* C17: an insert rejected with error code 11000 ends the task without
\* error; the step changes neither the store nor the effect count.
DuplicateKeySuccess ==
    /\ [](\A i \in dupWarned :
             pc[i] = "completed" /\ failure[i] = "none" /\ i \notin logged)
    /\ [][\A i \in Subs :
             (i \notin dupWarned /\ i \in dupWarned')
             => (store' = store /\ effects' = effects)]_vars

\* Two deliveries ran the effect; the second insert hit 11000 and the task
\* resolved, the first document being kept.
DuplicateKeySuccessWitness ==
    \E i \in dupWarned :
        /\ effects[ev[i].eventId] = 2 /\ pc[i] = "completed"
        /\ Len(store) = 1 /\ store[1].sub # i

\* C18: a task whose findOne or create threw is failed and stays failed
\* (no further check, effect or insert), and no document is written by it.
NoRetry ==
    /\ [](\A i \in Subs :
             failure[i] \in {"findOne", "create"} =>
                 /\ pc[i] = "failed"
                 /\ \A n \in 1..Len(store) : store[n].sub # i)
    /\ [][\A i \in Subs : pc[i] = "failed" => pc'[i] = "failed"]_vars

\* A task failed at its insert after running the effect; nothing was
\* written for its eventId.
NoRetryWitness ==
    \E i \in Subs :
        /\ pc[i] = "failed" /\ failure[i] = "create"
        /\ effects[ev[i].eventId] = 1 /\ ~HasRecord(ev[i].eventId)

\* The lifecycle of the specification in terms of pc: Submitted is idle ->
\* waiting / checking, Executing and Recording are executing and recording.
LifecycleClaimed ==
    {<<"idle", "waiting">>, <<"idle", "checking">>, <<"waiting", "checking">>,
     <<"checking", "skipped">>, <<"checking", "executing">>,
     <<"executing", "recording">>, <<"recording", "completed">>,
     <<"executing", "failed">>, <<"recording", "failed">>}

\* C19 (as claimed): an event moves only along Submitted -> Skipped,
\* Submitted -> Executing -> Recording -> Completed and Executing or
\* Recording -> Failed, and never leaves a terminal state.
Lifecycle ==
    [][\A i \in Subs :
          pc'[i] # pc[i] => <<pc[i], pc'[i]>> \in LifecycleClaimed]_vars

\* C19 (amended): the same, with Failed entered also from the existence
\* check of a Submitted event when findOne throws.
LifecycleWithCheckFailure ==
    [][\A i \in Subs :
          pc'[i] # pc[i] =>
              <<pc[i], pc'[i]>> \in LifecycleClaimed \cup {<<"checking", "failed">>}]_vars

\* One event completed, one was skipped and one failed at its check.
LifecycleWithCheckFailureWitness ==
    \E i, j, k \in Subs :
        /\ pc[i] = "completed" /\ pc[j] = "skipped"
        /\ pc[k] = "failed" /\ failure[k] = "findOne"

\* C21: a document of processed_events is never changed or removed once
\* inserted: every step keeps the documents present, in place, as written.
AppendOnly ==
    [][\A n \in 1..Len(store) :
          Len(store') >= n /\ store'[n] = store[n]]_vars

\* A later delivery of a recorded eventId under another patientId has
\* finished, and the document still carries the first delivery's fields.
AppendOnlyWitness ==
    \E n \in 1..Len(store), i \in Subs :
        /\ ev[i].eventId = store[n].eventId
        /\ ev[i].patientId # store[n].patientId
        /\ store[n].sub < i
        /\ pc[i] \in {"skipped", "completed"}

\* C23: the processEvent promise of an event rejects exactly when the
\* event's own findOne or create call threw; an event that was skipped or
\* completed (error code 11000 included) did not reject, whatever happened
\* to the events before it.
OwnErrorOnly ==
    \A i \in Subs :
        /\ i \in logged <=> failure[i] \in {"findOne", "create"}
        /\ i \in logged <=> pc[i] = "failed"
        /\ pc[i] \in {"skipped", "completed"} => failure[i] = "none"

\* An event rejected, and the event that waited on it resolved, one of
\* them after error code 11000.
OwnErrorOnlyWitness ==
    \E i, j \in Subs :
        /\ i \in logged /\ pred[j] = i
        /\ pc[j] \in {"skipped", "completed"} /\ j \notin logged
        /\ dupWarned # {}

\* C24: while an event of a patientId is waiting or in its processing step,
\* patientLocks holds an entry for that patientId.
RegistryCovers ==
    \A i \in Subs : Unfinished(i) => patientLocks[ev[i].patientId] # 0

\* C25: every document was inserted by a task that had passed findOne and
\* run simulateProcessing to its end for the document's eventId; a task
\* that was skipped or failed has inserted none.
RecordImpliesEffect ==
    /\ [](\A n \in 1..Len(store) :
             LET i == store[n].sub
             IN /\ store[n].eventId = ev[i].eventId
                /\ effects[store[n].eventId] >= 1
                /\ pc[i] = "completed" /\ i \notin dupWarned)
    /\ [][Len(store') > Len(store) =>
            \E i \in Subs :
                /\ pc[i] = "recording" /\ pc'[i] = "completed"
                /\ store' = Append(store, ProcessedEvent(ev[i], i))]_vars

\* One document, inserted by a completed task; another delivery of the
\* eventId was skipped and a third failed, neither inserting anything.
RecordImpliesEffectWitness ==
    \E i, j, f \in Subs :
        /\ Len(store) = 1 /\ store[1].sub = i
        /\ pc[j] = "skipped" /\ ev[j].eventId = ev[i].eventId
        /\ pc[f] = "failed"

\* C27: an entry of patientLocks belongs to the event of its patientId that
\* was received last.
RegistryTail ==
    \A k \in Patients :
        patientLocks[k] # 0 =>
            /\ ev[patientLocks[k]].patientId = k
            /\ \A i \in 1..nsub : ev[i].patientId = k => i <= patientLocks[k]

\* Three events of one patient are unfinished and the entry is the third.
RegistryTailWitness ==
    \E k \in Patients :
        /\ patientLocks[k] = 3
        /\ \A i \in 1..3 : ev[i].patientId = k /\ Unfinished(i)

\* C22: with restarts of the processor and resubmission of the lost events,
\* processed_events holds at most one document per eventId, and once an
\* eventId has a document the document stays, the effect is not run for
\* that eventId again, and a delivery that is checked is skipped.
RestartSafety ==
    /\ [](\A a, b \in 1..Len(store) :
             store[a].eventId = store[b].eventId => a = b)
    /\ [][\A id \in EventIds :
            HasRecord(id) =>
                /\ HasRecord(id)'
                /\ effects'[id] = effects[id]
                /\ \A i \in Subs :
                       (ev[i].eventId = id /\ pc[i] = "checking")
                       => pc'[i] \in {"checking", "skipped", "failed", "lost"}]_vars

\* An event completed, a second delivery of its eventId was lost by a
\* restart, was resubmitted and skipped; the effect ran once.
RestartSafetyWitness ==
    \E i, l, j \in Subs :
        /\ i < l /\ l < j
        /\ ev[l].eventId = ev[i].eventId /\ ev[j].eventId = ev[i].eventId
        /\ pc[i] = "completed" /\ pc[l] = "lost"
        /\ pc[j] = "skipped" /\ ev[j].src = "resubmit"
        /\ effects[ev[i].eventId] = 1

\* C26: POST /events has answered 'queued' only for an event to which
\* publish gave an eventId no event had before and for which the processor
\* has answered 'accepted'; a request whose forwarding failed was not
\* answered 'queued'.
QueuedAfterHandOff ==
    \A r \in ingestLog :
        /\ r.reply = "queued" =>
               /\ r.forward = "acknowledged"
               /\ \E i \in 1..nsub :
                      /\ ev[i].eventId = r.eventId /\ ev[i].src = "ingest"
                      /\ response[i] = "accepted"
                      /\ \A j \in 1..(i - 1) : ev[j].eventId # r.eventId
        /\ r.forward = "failed" => r.reply # "queued"

\* One request was answered 'queued'; another was answered with the error
\* although the processor had received and accepted its event.
QueuedAfterHandOffWitness ==
    \E q, f \in ingestLog :
        /\ q.reply = "queued"
        /\ f.forward = "failed" /\ f.reply = "error"
        /\ \E i \in 1..nsub :
               ev[i].eventId = f.eventId /\ response[i] = "accepted"
====
